---- MODULE Spec2Model ----
(***************************************************************************)
(* Model of the ESP32-CAM upload relay (src/app.py): the Flask handlers    *)
(* POST /upload and GET /list-files, the local staging directory 'uploads' *)
(* and the Firebase Storage bucket they talk to.                           *)
(*                                                                         *)
(* Each upload request runs in its own handling context (thread); the      *)
(* steps of a handler that touch the shared file system or the bucket are  *)
(* separate actions, so that requests interleave between system calls.     *)
(***************************************************************************)
EXTENDS Integers, Sequences, FiniteSets, TLC

VARIABLES
    pc,         \* pc[r]: position of request r inside upload()
    inp,        \* inp[r]: the multipart request as received
    timestamp,  \* timestamp[r]: uuid4().time_low drawn by r (line 116)
    file_size,  \* file_size[r]: os.path.getsize(local_path) as seen by r
    exc,        \* exc[r]: text of the exception caught at line 163
    resp,       \* resp[r]: (body, status) returned by the handler
    fs,         \* fs[t]: the staged file uploads/esp32cam_<t>.jpg
    remote,     \* remote[n]: the object named n in the bucket
    hist,       \* hist[r]: what request r did (observation only)
    listing,    \* (body, status) returned by the last GET /list-files
    server,     \* the process: its phase and what module import did
    env         \* environment and files the process was started with

vars == <<pc, inp, timestamp, file_size, exc, resp, fs, remote, hist, listing,
          server, env>>

----------------------------------------------------------------------------
(* Bounds *)

NumReqs == 2          \* upload requests that may be in flight together
TokenSpace == 2       \* distinct values uuid4().time_low can take
MaxPayloadLen == 3    \* longest payload of a request handled alone
MaxSec == 1           \* creation times range over seconds 0..MaxSec

(* Size limit the interface section names for the 413 answer (16 MiB),    *)
(* in payload units.                                                      *)
BodyLimit == MaxPayloadLen - 1

Reqs == 1..NumReqs
Tokens == 0..(TokenSpace - 1)

----------------------------------------------------------------------------
(* Request inputs *)

JPG == <<"a", ".", "j", "p", "g">>
JPGUpper == <<"A", ".", "J", "P", "G">>
EXE == <<"a", ".", "e", "x", "e">>
NoExt == <<"a">>
EmptyName == <<>>

Payload(r, n) == [i \in 1..n |-> r]

\* a request without the 'photo' part
NoPhotoInput(r) ==
    [has_photo |-> FALSE, filename |-> EmptyName, payload |-> Payload(r, 1),
     content_type |-> "image/jpeg"]

AllInputs(r) ==
    {NoPhotoInput(r)} \cup
    { [has_photo |-> TRUE, filename |-> f, payload |-> Payload(r, n),
       content_type |-> c] :
        f \in {JPG, JPGUpper, EXE, NoExt, EmptyName},
        n \in 0..MaxPayloadLen,
        c \in {"image/jpeg", "image/png"} }

\* concurrent requests: request r sends r bytes, so that payloads of
\* requests in flight together differ in content and in length
ConcInputs(r) ==
    { [has_photo |-> TRUE, filename |-> JPG, payload |-> Payload(r, r),
       content_type |-> "image/jpeg"] }

NoInput == [has_photo |-> FALSE, filename |-> EmptyName, payload |-> <<>>,
            content_type |-> ""]

----------------------------------------------------------------------------
(* Names *)

UPLOAD_FOLDER == "uploads"
PREFIX == "esp32cam/"

\* variant: another extension
Filename_Jpeg(t) == <<"esp32cam_", t, ".jpeg">>

\* f"esp32cam_{timestamp}.jpg"
Filename(t) == <<"esp32cam_", t, ".jpg">>

\* os.path.join(UPLOAD_FOLDER, filename)
LocalPath(filename) == <<UPLOAD_FOLDER, "/">> \o filename

\* f"esp32cam/{filename}"
BlobPath(filename) == <<PREFIX>> \o filename

\* blob.public_url
PublicUrl(path) == <<"https://storage.googleapis.com/", "bucket", "/">> \o path

\* bucket objects that are not under the listed prefix
ExtraNames == { <<"other/", "x", 1>> }

\* objects under the prefix that were not stored by a request of this run
OldNames == { <<PREFIX, "old", 1>> }

ObjectNames ==
    { BlobPath(Filename(t)) : t \in Tokens } \cup OldNames \cup ExtraNames

\* the bucket lists its objects in name order
NamesInOrder ==
    [i \in 1..TokenSpace |-> BlobPath(Filename(i - 1))] \o
    << <<PREFIX, "old", 1>> >> \o
    << <<"other/", "x", 1>> >>

\* list_blobs(prefix=...): name.startswith(prefix)
HasPrefix(name, prefix) == Len(name) > 0 /\ name[1] = prefix

----------------------------------------------------------------------------
(* Files and objects *)

NoFile == [exists |-> FALSE, owner |-> 0, data |-> <<>>]
File(r, d) == [exists |-> TRUE, owner |-> r, data |-> d]

NoTime == [has |-> FALSE, sec |-> 0, us |-> 0]
Time(s, u) == [has |-> TRUE, sec |-> s, us |-> u]
Micros == {0, 500000}
Times == { Time(s, u) : s \in 0..MaxSec, u \in Micros }

NoBlob == [exists |-> FALSE, owner |-> 0, data |-> <<>>, content_type |-> "",
           public |-> FALSE, time_created |-> NoTime]

NoResp == [status |-> 0, body |-> [none |-> TRUE]]

NoHist == [wrote |-> FALSE, save_raised |-> FALSE, seen_missing |-> FALSE,
           sized |-> FALSE, calls |-> <<>>, upload_ok |-> FALSE,
           public_ok |-> FALSE, removes |-> <<>>, staged |-> <<>>,
           blob |-> <<>>]

----------------------------------------------------------------------------
(* Responses *)

\* jsonify({'error': ...}), 400
BadRequest(msg) == [status |-> 400, body |-> [error |-> msg]]

\* variant: a failure answered as a partial success
ErrorResponse_Partial(e) ==
    [status |-> 200, body |-> [error |-> <<"Error al subir imagen: ", e>>]]

\* variant: the text of the exception is left out
ErrorResponse_Generic(e) ==
    [status |-> 500, body |-> [error |-> <<"Error al subir imagen: ", "">>]]

\* jsonify({'error': f'... {str(e)}'}), 500
ErrorResponse(e) ==
    [status |-> 500, body |-> [error |-> <<"Error al subir imagen: ", e>>]]

\* jsonify({'message', 'filename', 'url', 'size', 'timestamp'}), 200
SuccessResponse(filename, public_url, size, ts) ==
    [status |-> 200,
     body |-> [message |-> "Imagen subida exitosamente", filename |-> filename,
               url |-> public_url, size |-> size, timestamp |-> ts]]

----------------------------------------------------------------------------
(* Validation, lines 96-113 *)

\* FileStorage.__bool__ is bool(filename)
FileTruthy(in) == in.filename # <<>>

\* variant: the empty-filename check is missing
Validate_NoNameCheck(in) ==
    IF ~in.has_photo THEN "No se encontro el archivo photo en la solicitud"
    ELSE "ok"

Validate(in) ==
    IF ~in.has_photo THEN "No se encontro el archivo photo en la solicitud"
    ELSE IF in.filename = <<>> THEN "No se selecciono ningun archivo"
    ELSE IF ~FileTruthy(in) THEN "El archivo esta vacio"
    ELSE "ok"

\* app.config has no MAX_CONTENT_LENGTH: Flask's default is no limit
MAX_CONTENT_LENGTH == -1

\* werkzeug raises RequestEntityTooLarge (413) while parsing the form
TooLarge(in) == MAX_CONTENT_LENGTH >= 0 /\ Len(in.payload) > MAX_CONTENT_LENGTH

----------------------------------------------------------------------------
(* Startup, lines 15-56 *)

\* what the process finds when it starts: the FIREBASE_CREDENTIALS variable,
\* the file serviceAccount.json, and whether initialize_app succeeds
Envs ==
    [ FIREBASE_CREDENTIALS : {"unset", "empty", "valid", "malformed", "bad_cert"},
      service_account_file : {"missing", "valid", "bad_cert"},
      initialize_app_ok : BOOLEAN ]

GoodEnv == [FIREBASE_CREDENTIALS |-> "valid", service_account_file |-> "missing",
            initialize_app_ok |-> TRUE]

\* lines 19-33: the credential is built from the variable when it is set
\* and not empty (json.loads, then credentials.Certificate), else from the
\* file, which must exist; any exception makes initialize_firebase fail
CredentialOk(e) ==
    IF e.FIREBASE_CREDENTIALS \notin {"unset", "empty"}
    THEN e.FIREBASE_CREDENTIALS = "valid"
    ELSE e.service_account_file = "valid"

\* lines 15-47
initialize_firebase(e) == CredentialOk(e) /\ e.initialize_app_ok

Booting == [phase |-> "boot", initialized |-> FALSE, uploads_dir |-> FALSE]

\* variant: the process keeps going after a failed initialization
Startup_NoExit ==
    /\ server.phase = "boot"
    /\ server' = [phase |-> "serving", initialized |-> initialize_firebase(env),
                  uploads_dir |-> TRUE]
    /\ UNCHANGED <<pc, inp, timestamp, file_size, exc, resp, fs, remote, hist,
                   listing, env>>

\* lines 49-56: module import; exit(1) when initialize_firebase() is False,
\* else os.makedirs(UPLOAD_FOLDER) and the routes are served
Startup ==
    /\ server.phase = "boot"
    /\ IF initialize_firebase(env)
       THEN server' = [phase |-> "serving", initialized |-> TRUE,
                       uploads_dir |-> TRUE]
       ELSE server' = [phase |-> "exited", initialized |-> FALSE,
                       uploads_dir |-> FALSE]
    /\ UNCHANGED <<pc, inp, timestamp, file_size, exc, resp, fs, remote, hist,
                   listing, env>>

\* a request is handled only by a process that is serving
Serving == server.phase = "serving"

----------------------------------------------------------------------------
(* Initial state: the process is serving, no request received, staging     *)
(* directory and bucket empty                                              *)

Init ==
    /\ pc = [r \in Reqs |-> "idle"]
    /\ inp = [r \in Reqs |-> NoInput]
    /\ timestamp = [r \in Reqs |-> 0]
    /\ file_size = [r \in Reqs |-> 0]
    /\ exc = [r \in Reqs |-> ""]
    /\ resp = [r \in Reqs |-> NoResp]
    /\ fs = [t \in Tokens |-> NoFile]
    /\ remote = [n \in ObjectNames |-> NoBlob]
    /\ hist = [r \in Reqs |-> NoHist]
    /\ listing = NoResp
    /\ server = [phase |-> "serving", initialized |-> TRUE, uploads_dir |-> TRUE]
    /\ env = GoodEnv

----------------------------------------------------------------------------
(* Helpers of the handler *)

\* an exception raised inside the try block: control goes to line 163
Raise(r, e) ==
    /\ pc' = [pc EXCEPT ![r] = "except"]
    /\ exc' = [exc EXCEPT ![r] = e]

\* the handler returns
Return(r, response) ==
    /\ pc' = [pc EXCEPT ![r] = "done"]
    /\ resp' = [resp EXCEPT ![r] = response]

Note(r, field, value) == hist' = [hist EXCEPT ![r][field] = value]

\* variant: the size check is missing
StagedEmpty_Never(size) == FALSE

\* line 133
StagedEmpty(size) == size = 0

----------------------------------------------------------------------------
(* POST /upload, lines 92-174 *)

\* lines 93-120: parse the form, validate, draw the name
Begin(r, inputs) ==
    /\ Serving
    /\ pc[r] = "idle"
    /\ \E in \in inputs, t \in Tokens :
        /\ inp' = [inp EXCEPT ![r] = in]
        /\ IF TooLarge(in)
           THEN /\ Return(r, [status |-> 413, body |-> [error |-> "Request Entity Too Large"]])
                /\ UNCHANGED timestamp
           ELSE IF Validate(in) # "ok"
           THEN /\ Return(r, BadRequest(Validate(in)))
                /\ UNCHANGED timestamp
           ELSE /\ pc' = [pc EXCEPT ![r] = "save"]
                /\ timestamp' = [timestamp EXCEPT ![r] = t]
                /\ UNCHANGED resp
    /\ UNCHANGED <<file_size, exc, fs, remote, hist, listing,
                   server, env>>

\* line 124: file.save(local_path) opens the path for writing (creating or
\* truncating it) and copies the stream; it may fail before the file is
\* created or after part of the payload was written
Save(r) ==
    /\ pc[r] = "save"
    /\ \/ /\ fs' = [fs EXCEPT ![timestamp[r]] = File(r, inp[r].payload)]
          /\ pc' = [pc EXCEPT ![r] = "exists"]
          /\ hist' = [hist EXCEPT ![r].wrote = TRUE,
                    ![r].staged = LocalPath(Filename(timestamp[r]))]
          /\ UNCHANGED exc
       \/ /\ Raise(r, "save failed")
          /\ hist' = [hist EXCEPT ![r].save_raised = TRUE]
          /\ UNCHANGED fs
       \/ \E k \in 0..(Len(inp[r].payload) - 1) :
          /\ fs' = [fs EXCEPT ![timestamp[r]] =
                        File(r, SubSeq(inp[r].payload, 1, k))]
          /\ Raise(r, "save failed")
          /\ hist' = [hist EXCEPT ![r].wrote = TRUE, ![r].save_raised = TRUE,
                    ![r].staged = LocalPath(Filename(timestamp[r]))]
    /\ UNCHANGED <<inp, timestamp, file_size, resp, remote, listing,
                   server, env>>

\* lines 127-128
CheckExists(r) ==
    /\ pc[r] = "exists"
    /\ IF fs[timestamp[r]].exists
       THEN /\ pc' = [pc EXCEPT ![r] = "getsize"]
            /\ UNCHANGED <<exc, hist>>
       ELSE /\ Raise(r, "No se pudo guardar el archivo temporalmente")
            /\ Note(r, "seen_missing", TRUE)
    /\ UNCHANGED <<inp, timestamp, file_size, resp, fs, remote, listing,
                   server, env>>

\* lines 130-134
GetSize(r) ==
    /\ pc[r] = "getsize"
    /\ IF ~fs[timestamp[r]].exists
       THEN /\ Raise(r, "getsize: No such file or directory")
            /\ Note(r, "seen_missing", TRUE)
            /\ UNCHANGED file_size
       ELSE /\ file_size' = [file_size EXCEPT ![r] = Len(fs[timestamp[r]].data)]
            /\ Note(r, "sized", TRUE)
            /\ IF StagedEmpty(Len(fs[timestamp[r]].data))
               THEN Raise(r, "El archivo guardado esta vacio")
               ELSE /\ pc' = [pc EXCEPT ![r] = "upload"]
                    /\ UNCHANGED exc
    /\ UNCHANGED <<inp, timestamp, resp, fs, remote, listing,
                   server, env>>

\* variant: a failed upload is tried again
UploadBlob_Retry(r, times) ==
    /\ pc[r] = "upload"
    /\ LET path == BlobPath(Filename(timestamp[r])) IN
       IF ~fs[timestamp[r]].exists
       THEN /\ Raise(r, "upload: No such file or directory")
            /\ UNCHANGED <<remote, hist>>
       ELSE \/ \E tc \in times :
               /\ remote' = [remote EXCEPT ![path] =
                    [exists |-> TRUE, owner |-> r,
                     data |-> fs[timestamp[r]].data,
                     content_type |-> "image/jpeg",
                     public |-> FALSE, time_created |-> tc]]
               /\ pc' = [pc EXCEPT ![r] = "make_public"]
               /\ hist' = [hist EXCEPT ![r].calls = Append(@, "upload"),
                                       ![r].upload_ok = TRUE,
                                       ![r].blob = path]
               /\ UNCHANGED exc
            \/ /\ hist' = [hist EXCEPT ![r].calls = Append(@, "upload"),
                                       ![r].blob = path]
               /\ UNCHANGED <<pc, exc, remote>>
    /\ UNCHANGED <<inp, timestamp, file_size, resp, fs, listing,
                   server, env>>

\* lines 138-144: blob.upload_from_filename(local_path, content_type=...)
\* opens the staged file, then sends its bytes; the object replaces any
\* object of the same name and starts private; the server stamps it with
\* one of the creation times in 'times'
UploadBlob(r, times) ==
    /\ pc[r] = "upload"
    /\ LET path == BlobPath(Filename(timestamp[r])) IN
       IF ~fs[timestamp[r]].exists
       THEN /\ Raise(r, "upload: No such file or directory")
            /\ UNCHANGED <<remote, hist>>
       ELSE \/ \E tc \in times :
               /\ remote' = [remote EXCEPT ![path] =
                    [exists |-> TRUE, owner |-> r,
                     data |-> fs[timestamp[r]].data,
                     content_type |-> "image/jpeg",
                     public |-> FALSE, time_created |-> tc]]
               /\ pc' = [pc EXCEPT ![r] = "make_public"]
               /\ hist' = [hist EXCEPT ![r].calls = Append(@, "upload"),
                                       ![r].upload_ok = TRUE,
                                       ![r].blob = path]
               /\ UNCHANGED exc
            \/ /\ Raise(r, "upload failed")
               /\ hist' = [hist EXCEPT ![r].calls = Append(@, "upload"),
                                       ![r].blob = path]
               /\ UNCHANGED remote
    /\ UNCHANGED <<inp, timestamp, file_size, resp, fs, listing,
                   server, env>>

\* variant: a failure of make_public is swallowed
MakePublic_Swallow(r) ==
    /\ pc[r] = "make_public"
    /\ LET path == BlobPath(Filename(timestamp[r])) IN
       \/ /\ remote[path].exists
          /\ remote' = [remote EXCEPT ![path].public = TRUE]
          /\ hist' = [hist EXCEPT ![r].calls = Append(@, "make_public"),
                                  ![r].public_ok = TRUE]
       \/ /\ hist' = [hist EXCEPT ![r].calls = Append(@, "make_public")]
          /\ UNCHANGED remote
    /\ pc' = [pc EXCEPT ![r] = "remove"]
    /\ UNCHANGED <<inp, timestamp, file_size, exc, resp, fs, listing,
                   server, env>>

\* lines 147-149: blob.make_public()
MakePublic(r) ==
    /\ pc[r] = "make_public"
    /\ LET path == BlobPath(Filename(timestamp[r])) IN
       \/ /\ remote[path].exists
          /\ remote' = [remote EXCEPT ![path].public = TRUE]
          /\ pc' = [pc EXCEPT ![r] = "remove"]
          /\ hist' = [hist EXCEPT ![r].calls = Append(@, "make_public"),
                                  ![r].public_ok = TRUE]
          /\ UNCHANGED exc
       \/ /\ Raise(r, "make_public failed")
          /\ hist' = [hist EXCEPT ![r].calls = Append(@, "make_public")]
          /\ UNCHANGED remote
    /\ UNCHANGED <<inp, timestamp, file_size, resp, fs, listing,
                   server, env>>

\* lines 151-161: os.remove(local_path), then the success response
RemoveLocal(r) ==
    /\ pc[r] = "remove"
    /\ \/ /\ fs[timestamp[r]].exists
          /\ fs' = [fs EXCEPT ![timestamp[r]] = NoFile]
          /\ Return(r, SuccessResponse(Filename(timestamp[r]),
                        PublicUrl(BlobPath(Filename(timestamp[r]))),
                        file_size[r], timestamp[r]))
          /\ hist' = [hist EXCEPT ![r].removes = Append(@, "ok")]
          /\ UNCHANGED exc
       \/ /\ Raise(r, "remove failed")
          /\ hist' = [hist EXCEPT ![r].removes = Append(@, "fail")]
          /\ UNCHANGED <<fs, resp>>
    /\ UNCHANGED <<inp, timestamp, file_size, remote, listing,
                   server, env>>

\* variant: the except block answers without cleaning up
ExceptExists_NoCleanup(r) ==
    /\ pc[r] = "except"
    /\ Return(r, ErrorResponse(exc[r]))
    /\ UNCHANGED <<inp, timestamp, file_size, exc, fs, remote, hist, listing,
                   server, env>>

\* lines 163-167, 174: the except block looks for the staged file
ExceptExists(r) ==
    /\ pc[r] = "except"
    /\ IF fs[timestamp[r]].exists
       THEN /\ pc' = [pc EXCEPT ![r] = "except_remove"]
            /\ UNCHANGED resp
       ELSE Return(r, ErrorResponse(exc[r]))
    /\ UNCHANGED <<inp, timestamp, file_size, exc, fs, remote, hist, listing,
                   server, env>>

\* lines 168-174: os.remove inside try / bare except, then the 500 response
ExceptRemove(r) ==
    /\ pc[r] = "except_remove"
    /\ \/ /\ fs[timestamp[r]].exists
          /\ fs' = [fs EXCEPT ![timestamp[r]] = NoFile]
          /\ hist' = [hist EXCEPT ![r].removes = Append(@, "ok")]
       \/ /\ hist' = [hist EXCEPT ![r].removes = Append(@, "fail")]
          /\ UNCHANGED fs
    /\ Return(r, ErrorResponse(exc[r]))
    /\ UNCHANGED <<inp, timestamp, file_size, exc, remote, listing,
                   server, env>>

Upload(r, inputs, times) ==
    \/ Begin(r, inputs)
    \/ Save(r)
    \/ CheckExists(r)
    \/ GetSize(r)
    \/ UploadBlob(r, times)
    \/ MakePublic(r)
    \/ RemoveLocal(r)
    \/ ExceptExists(r)
    \/ ExceptRemove(r)

\* concurrent requests
Next == \E r \in Reqs : Upload(r, ConcInputs(r), {Time(0, 0)})

Spec == Init /\ [][Next]_vars

\* the steps of a handler that need no answer from the bucket: the server
\* runs them once they are enabled.  upload_from_filename (line 143) and
\* make_public (line 147) are called without timeout: they return when the
\* bucket answers, which nothing obliges it to do
Local(r) ==
    \/ Save(r)
    \/ CheckExists(r)
    \/ GetSize(r)
    \/ RemoveLocal(r)
    \/ ExceptExists(r)
    \/ ExceptRemove(r)

\* the bucket is taken to answer every make_public call, so that only the
\* answer to the upload call is left open
SpecLive ==
    /\ Init /\ [][Next]_vars
    /\ \A r \in Reqs : WF_vars(Local(r)) /\ WF_vars(MakePublic(r))

\* one request at a time, every request shape
NextOne == Upload(1, AllInputs(1), Times)

SpecOne == Init /\ [][NextOne]_vars

----------------------------------------------------------------------------
(* GET /list-files, lines 176-202 *)

Digit(d) == 48 + d
Digits2(n) == <<Digit((n \div 10) % 10), Digit(n % 10)>>
Digits6(n) ==
    <<Digit((n \div 100000) % 10), Digit((n \div 10000) % 10),
      Digit((n \div 1000) % 10), Digit((n \div 100) % 10),
      Digit((n \div 10) % 10), Digit(n % 10)>>

\* "2024-01-01T00:00:" as code points
DatePrefix == <<50, 48, 50, 52, 45, 48, 49, 45, 48, 49, 84, 48, 48, 58, 48, 48, 58>>
\* "+00:00"
UtcSuffix == <<43, 48, 48, 58, 48, 48>>

\* datetime.isoformat(): the fraction is omitted when microsecond is 0
isoformat(t) ==
    DatePrefix \o Digits2(t.sec)
        \o (IF t.us = 0 THEN <<>> ELSE <<46>> \o Digits6(t.us))
        \o UtcSuffix

\* str < str in Python: code point order, a proper prefix is smaller
RECURSIVE StrLess(_, _)
StrLess(a, b) ==
    IF b = <<>> THEN FALSE
    ELSE IF a = <<>> THEN TRUE
    ELSE IF Head(a) # Head(b) THEN Head(a) < Head(b)
    ELSE StrLess(Tail(a), Tail(b))

None == [some |-> FALSE, iso |-> <<>>]

\* lines 185-190: one entry of the listing
FileEntry(name, blob) ==
    [name |-> name,
     size |-> Len(blob.data),
     created |-> IF blob.time_created.has
                 THEN [some |-> TRUE, iso |-> isoformat(blob.time_created)]
                 ELSE None,
     url |-> <<"https://storage.googleapis.com/", "bucket", "/">> \o name]

\* variant: an entry without creation time gets the largest key
SortKey_MissingLast(x) ==
    IF x.created.some /\ x.created.iso # <<>> THEN x.created.iso ELSE <<127>>

\* line 193: key=lambda x: x['created'] or ''
SortKey(x) == IF x.created.some /\ x.created.iso # <<>> THEN x.created.iso ELSE <<>>

\* list.sort(key=..., reverse=True) is stable: entries with equal keys keep
\* their order, an entry goes before the first one with a smaller key
RECURSIVE InsertDesc(_, _)
InsertDesc(sorted, x) ==
    IF sorted = <<>> THEN <<x>>
    ELSE IF StrLess(SortKey(Head(sorted)), SortKey(x))
         THEN <<x>> \o sorted
         ELSE <<Head(sorted)>> \o InsertDesc(Tail(sorted), x)

RECURSIVE SortDesc(_)
SortDesc(files) ==
    IF files = <<>> THEN <<>>
    ELSE InsertDesc(SortDesc(SubSeq(files, 1, Len(files) - 1)),
                    files[Len(files)])

\* lines 181-190: bucket.list_blobs(prefix='esp32cam/') and the loop
RECURSIVE ListBlobs(_, _, _)
ListBlobs(bucket, names, prefix) ==
    IF names = <<>> THEN <<>>
    ELSE (IF bucket[Head(names)].exists /\ HasPrefix(Head(names), prefix)
          THEN <<FileEntry(Head(names), bucket[Head(names)])>>
          ELSE <<>>) \o ListBlobs(bucket, Tail(names), prefix)

ListFiles ==
    /\ Serving
    /\ \/ LET files == SortDesc(ListBlobs(remote, NamesInOrder, PREFIX)) IN
          listing' = [status |-> 200,
                      body |-> [message |-> <<Len(files), " archivos encontrados">>,
                                files |-> files]]
       \/ listing' = [status |-> 500,
                      body |-> [error |-> "Error listando archivos"]]
    /\ UNCHANGED <<pc, inp, timestamp, file_size, exc, resp, fs, remote, hist,
                   server, env>>

\* the bucket as some earlier run left it
Blobs ==
    {NoBlob} \cup
    { [exists |-> TRUE, owner |-> 0, data |-> <<0>>,
       content_type |-> "image/jpeg", public |-> TRUE, time_created |-> tc] :
        tc \in Times \cup {NoTime} }

InitList ==
    /\ pc = [r \in Reqs |-> "idle"]
    /\ inp = [r \in Reqs |-> NoInput]
    /\ timestamp = [r \in Reqs |-> 0]
    /\ file_size = [r \in Reqs |-> 0]
    /\ exc = [r \in Reqs |-> ""]
    /\ resp = [r \in Reqs |-> NoResp]
    /\ fs = [t \in Tokens |-> NoFile]
    /\ remote \in [ObjectNames -> Blobs]
    /\ hist = [r \in Reqs |-> NoHist]
    /\ listing = NoResp
    /\ server = [phase |-> "serving", initialized |-> TRUE, uploads_dir |-> TRUE]
    /\ env = GoodEnv

NextList == ListFiles

SpecList == InitList /\ [][NextList]_vars

\* the process from its start: import, then requests if it serves
InitBoot ==
    /\ pc = [r \in Reqs |-> "idle"]
    /\ inp = [r \in Reqs |-> NoInput]
    /\ timestamp = [r \in Reqs |-> 0]
    /\ file_size = [r \in Reqs |-> 0]
    /\ exc = [r \in Reqs |-> ""]
    /\ resp = [r \in Reqs |-> NoResp]
    /\ fs = [t \in Tokens |-> NoFile]
    /\ remote = [n \in ObjectNames |-> NoBlob]
    /\ hist = [r \in Reqs |-> NoHist]
    /\ listing = NoResp
    /\ server = Booting
    /\ env \in Envs

NextStart ==
    \/ Startup
    \/ Upload(1, ConcInputs(1), {Time(0, 0)})
    \/ ListFiles

SpecStart == InitBoot /\ [][NextStart]_vars

----------------------------------------------------------------------------
(* Properties of POST /upload *)

Done(r) == pc[r] = "done"
InFlight(r) == pc[r] \notin {"idle", "done"}
Leftover(r) == \E t \in Tokens : fs[t].exists /\ fs[t].owner = r
LastRemoveFailed(r) ==
    hist[r].removes # <<>> /\ hist[r].removes[Len(hist[r].removes)] = "fail"
UploadFailed(r) == hist[r].calls = <<"upload">> /\ ~hist[r].upload_ok
FullSuccess(response) ==
    response.status = 200 /\ "url" \in DOMAIN response.body

C3_SuccessOnlyAfterRemoteSteps ==
    [][\A r \in Reqs :
        resp'[r] # resp[r] /\ FullSuccess(resp'[r]) =>
            /\ hist[r].upload_ok /\ hist[r].public_ok
            /\ hist[r].calls = <<"upload", "make_public">>]_vars

C3_Witness ==
    \E r \in Reqs :
        FullSuccess(resp[r]) /\ hist[r].upload_ok /\ hist[r].public_ok

(* C4: a request without the 'photo' part, or whose part has an empty      *)
(* filename, is answered 400 with an error message; it wrote nothing to    *)
(* the staging directory and called the bucket never, and both are as      *)
(* they were when it arrived.                                              *)
C4_InvalidRequestNoIO ==
    \A r \in Reqs :
        Done(r) /\ (~inp[r].has_photo \/ inp[r].filename = <<>>) =>
            /\ resp[r].status = 400
            /\ DOMAIN resp[r].body = {"error"}
            /\ ~hist[r].wrote /\ hist[r].calls = <<>> /\ hist[r].removes = <<>>
            /\ \A t \in Tokens : fs[t] = NoFile
            /\ \A n \in ObjectNames : remote[n] = NoBlob

C4_Witness ==
    \E r \in Reqs :
        Done(r) /\ inp[r].has_photo /\ inp[r].filename = <<>>
                /\ resp[r].status = 400

(* The extension rule of the data model: the text after the last dot,    *)
(* lower-cased, is one of png, jpg, jpeg, gif, bmp.                        *)
ALLOWED_EXTENSIONS ==
    { <<"p", "n", "g">>, <<"j", "p", "g">>, <<"j", "p", "e", "g">>,
      <<"g", "i", "f">>, <<"b", "m", "p">> }

Lower(c) ==
    CASE c = "A" -> "a" [] c = "J" -> "j" [] c = "P" -> "p" [] c = "G" -> "g"
      [] OTHER -> c

LastDot(name) ==
    IF \E i \in 1..Len(name) : name[i] = "."
    THEN CHOOSE i \in 1..Len(name) :
            name[i] = "." /\ \A j \in (i + 1)..Len(name) : name[j] # "."
    ELSE 0

AllowedExt(name) ==
    /\ LastDot(name) > 0
    /\ [i \in 1..(Len(name) - LastDot(name)) |-> Lower(name[LastDot(name) + i])]
            \in ALLOWED_EXTENSIONS

(* C5: a request with a file part passes validation exactly when the       *)
(* client filename has an extension in {png, jpg, jpeg, gif, bmp},         *)
(* whatever its case; any other filename gets a 4xx answer and nothing is  *)
(* staged.                                                                 *)
C5_ExtensionGate ==
    \A r \in Reqs :
        Done(r) /\ inp[r].has_photo =>
            /\ (resp[r].status \in 400..499) <=> ~AllowedExt(inp[r].filename)
            /\ ~AllowedExt(inp[r].filename) => ~hist[r].wrote

(* C6: when the staged write raised, or the staged file was found missing  *)
(* or of size zero afterwards, the answer is 5xx and the request made no   *)
(* call to the bucket.                                                     *)
StagingFailed(r) ==
    \/ hist[r].save_raised
    \/ hist[r].seen_missing
    \/ hist[r].sized /\ file_size[r] = 0

C6_StagingFailureNoRemote ==
    \A r \in Reqs :
        Done(r) /\ StagingFailed(r) =>
            /\ resp[r].status \in 500..599
            /\ hist[r].calls = <<>> /\ ~hist[r].upload_ok /\ ~hist[r].public_ok

C6_Witness ==
    \E r \in Reqs :
        /\ Done(r) /\ hist[r].sized /\ file_size[r] = 0
        /\ ~hist[r].save_raised /\ resp[r].status = 500

(* C7: two requests in flight at the same time never hold the same         *)
(* generated staged filename.                                              *)
C7_DistinctNames ==
    \A r1, r2 \in Reqs :
        r1 # r2 /\ InFlight(r1) /\ InFlight(r2) =>
            Filename(timestamp[r1]) # Filename(timestamp[r2])

(* C8: the size field of a success response is the byte length of the      *)
(* payload that request submitted.                                         *)
C8_SizeIsPayloadLength ==
    \A r \in Reqs :
        FullSuccess(resp[r]) => resp[r].body.size = Len(inp[r].payload)

(* C9: a request whose body is longer than the limit is answered 413 and   *)
(* nothing is staged for it.                                               *)
C9_TooLargeRejected ==
    \A r \in Reqs :
        Done(r) /\ Len(inp[r].payload) > BodyLimit =>
            resp[r].status = 413 /\ ~hist[r].wrote

----------------------------------------------------------------------------
(* Properties of GET /list-files *)

Listed == IF listing.status = 200 THEN listing.body.files ELSE <<>>
UnderPrefix == { n \in ObjectNames : remote[n].exists /\ HasPrefix(n, PREFIX) }
CreatedOf(entry) == remote[entry.name].time_created
Earlier(t1, t2) == t1.sec < t2.sec \/ (t1.sec = t2.sec /\ t1.us < t2.us)

(* C10: a successful listing holds exactly the bucket's objects under      *)
(* 'esp32cam/', once each, latest creation time first, and every entry     *)
(* without a creation time comes after all entries that have one.          *)
C10_ListingSortedNewestFirst ==
    listing.status = 200 =>
        /\ { Listed[i].name : i \in 1..Len(Listed) } = UnderPrefix
        /\ Len(Listed) = Cardinality(UnderPrefix)
        /\ \A i, j \in 1..Len(Listed) :
            i < j =>
                /\ Listed[i].created.some = CreatedOf(Listed[i]).has
                /\ CreatedOf(Listed[j]).has => CreatedOf(Listed[i]).has
                /\ CreatedOf(Listed[i]).has /\ CreatedOf(Listed[j]).has =>
                        ~Earlier(CreatedOf(Listed[i]), CreatedOf(Listed[j]))

C10_Witness ==
    /\ listing.status = 200
    /\ Len(Listed) >= 3
    /\ \E i, j \in 1..Len(Listed) :
        /\ i < j
        /\ CreatedOf(Listed[i]).has /\ ~CreatedOf(Listed[j]).has
    /\ \E i, j \in 1..Len(Listed) :
        /\ Earlier(CreatedOf(Listed[j]), CreatedOf(Listed[i]))
        /\ CreatedOf(Listed[i]).us = 0 /\ CreatedOf(Listed[j]).us # 0

----------------------------------------------------------------------------
(* Properties of startup *)

Handled == (\E r \in Reqs : pc[r] # "idle") \/ listing # NoResp

(* C11: in a run where initialize_firebase returned False the process has  *)
(* exited before serving: no request was ever handled and the staging      *)
(* directory was never created.                                            *)
C11_FailedInitNeverServes ==
    server.phase # "boot" /\ ~initialize_firebase(env) =>
        /\ server.phase = "exited"
        /\ ~server.uploads_dir
        /\ ~Handled

C11_Witness ==
    /\ server.phase = "exited"
    /\ env.FIREBASE_CREDENTIALS = "malformed"
    /\ env.service_account_file = "valid"

----------------------------------------------------------------------------
(* Further properties of POST /upload *)

(* C12: every request that was received is eventually answered, whatever   *)
(* the bucket does.                                                        *)
C12_EveryRequestReturns ==
    \A r \in Reqs : (pc[r] # "idle") ~> (pc[r] = "done")

CallFailed(r) ==
    Len(hist[r].calls) >
        (IF hist[r].upload_ok THEN 1 ELSE 0) + (IF hist[r].public_ok THEN 1 ELSE 0)

(* C13: within one request the upload call and the make-public call are    *)
(* each made at most once, upload first, and a call that failed is the     *)
(* last call of the request.                                               *)
C13_RemoteCallsOnce ==
    \A r \in Reqs :
        /\ hist[r].calls \in {<<>>, <<"upload">>, <<"upload", "make_public">>}
        /\ Len(hist[r].calls) = 2 => hist[r].upload_ok
        /\ ~hist[r].upload_ok => ~hist[r].public_ok

C13_Witness ==
    \E r \in Reqs : Done(r) /\ hist[r].calls = <<"upload">> /\ CallFailed(r)

(* C14: when staging, upload and make-public succeeded, the request is     *)
(* answered with the success response (200 with filename, url and size),   *)
(* also when the local delete failed.                                      *)
C14_DeleteFailureNotEscalated ==
    \A r \in Reqs :
        Done(r) /\ hist[r].upload_ok /\ hist[r].public_ok =>
            /\ resp[r].status = 200
            /\ {"filename", "url", "size"} \subseteq DOMAIN resp[r].body

(* C15: a request that wrote a staged file has tried to delete it by the   *)
(* time it answers, and does nothing after its answer.                     *)
C15_DeleteBeforeResponse ==
    [][\A r \in Reqs :
        /\ pc'[r] = "done" /\ hist'[r].wrote => hist'[r].removes # <<>>
        /\ Done(r) => pc'[r] = "done" /\ hist'[r] = hist[r]
                        /\ resp'[r] = resp[r]]_vars

FailureSeen(r) ==
    \/ StagingFailed(r)
    \/ CallFailed(r)
    \/ hist[r].removes # <<>> /\ hist[r].removes[1] = "fail"

RaisedTexts ==
    { "save failed", "No se pudo guardar el archivo temporalmente",
      "getsize: No such file or directory", "El archivo guardado esta vacio",
      "upload: No such file or directory", "upload failed",
      "make_public failed", "remove failed" }

(* C16: a request in which a step after validation failed stays inside the *)
(* handler and is answered 500 with a body whose only field is error,      *)
(* carrying the text of the exception caught at the handler boundary.      *)
C16_FailuresAnswered500 ==
    \A r \in Reqs :
        /\ pc[r] \in {"idle", "save", "exists", "getsize", "upload",
                      "make_public", "remove", "except", "except_remove", "done"}
        /\ FailureSeen(r) => exc[r] \in RaisedTexts
        /\ FailureSeen(r) => pc[r] \in {"except", "except_remove", "done"}
        /\ Done(r) /\ exc[r] # "" =>
            /\ resp[r].status = 500
            /\ DOMAIN resp[r].body = {"error"}
            /\ resp[r].body.error[2] = exc[r]

C16_Witness ==
    \E r \in Reqs :
        /\ Done(r) /\ hist[r].removes = <<"fail", "ok">>
        /\ resp[r].body.error[2] = "remove failed"

(* C17: the staged name, the object path and the filename of the response  *)
(* are esp32cam_<token>.jpg, uploads/ and esp32cam/ in front, whatever     *)
(* filename the client sent.                                               *)
C17_NamesFromTokenOnly ==
    \A r \in Reqs :
        /\ hist[r].wrote =>
            hist[r].staged = <<"uploads", "/", "esp32cam_", timestamp[r], ".jpg">>
        /\ hist[r].calls # <<>> =>
            hist[r].blob = <<"esp32cam/", "esp32cam_", timestamp[r], ".jpg">>
        /\ FullSuccess(resp[r]) =>
            /\ resp[r].body.filename = <<"esp32cam_", timestamp[r], ".jpg">>
            /\ resp[r].body.filename = SubSeq(hist[r].staged, 3, 5)
            /\ resp[r].body.url =
                <<"https://storage.googleapis.com/", "bucket", "/">> \o hist[r].blob

C17_Witness ==
    \E r \in Reqs :
        FullSuccess(resp[r]) /\ inp[r].filename = EXE /\ timestamp[r] = 1

(* C18: the stored object has the content type the sender declared for    *)
(* the file part.                                                          *)
C18_DeclaredContentType ==
    \A r \in Reqs :
        hist[r].upload_ok =>
            remote[hist[r].blob].content_type = inp[r].content_type

(* C19: when a request is answered with success, the object named in the   *)
(* answer holds the payload of that request.                               *)
C19_SuccessMeansOwnBytes ==
    [][\A r \in Reqs :
        resp'[r] # resp[r] /\ FullSuccess(resp'[r]) =>
            LET obj == remote'[BlobPath(resp'[r].body.filename)] IN
            obj.exists /\ obj.data = inp[r].payload]_vars

(* C20: when a request is answered 400 or 500, the bucket holds no object  *)
(* under the name generated for it.                                        *)
C20_ErrorMeansNotArchived ==
    \A r \in Reqs :
        Done(r) /\ resp[r].status \in {400, 500} =>
            /\ ~remote[BlobPath(Filename(timestamp[r]))].exists
            /\ hist[r].blob # <<>> => ~remote[hist[r].blob].exists

====
